---- MODULE Spec2Model ----
(***************************************************************************)
(* A model of the AniList client of the addon (src/lib/anilist.js):        *)
(*   - the rate-limited request gateway: the Bottleneck limiter, its       *)
(*     "failed" handler with the shared rateLimitPromise pause, and        *)
(*     makeGraphQLRequest;                                                 *)
(*   - the query-result cache with in-flight deduplication                 *)
(*     (getCachedResult);                                                  *)
(*   - progress reconciliation (handleWatchedEpisode,                      *)
(*     getAnilistMediaListEntry, updateAnilistProgress).                   *)
(*                                                                         *)
(* Node runs one macrotask (a timer, an HTTP response, a new external      *)
(* call) at a time and drains the microtasks (promise continuations) it    *)
(* made runnable before the next macrotask.  Macrotask actions are guarded *)
(* by Quiescent; continuation actions are enabled only for a promise that  *)
(* has settled.  Time is abstract: a pending timer may fire at any         *)
(* macrotask boundary; SpecTimed alone keeps a clock.                      *)
(***************************************************************************)
EXTENDS Integers, Sequences, FiniteSets, Bags, TLC

VARIABLES
    limiter,           \* the Bottleneck instance: queue, jobs, running, reservoir
    rateLimitPromise,  \* 0 (null) or the id of the shared pause promise
    timers,            \* ids of the pause promises whose setTimeout is pending
    windowDispatches,  \* upstream fetches started since the last reservoir refill
    submitted,         \* anonymous requests handed to makeGraphQLRequest so far
    cache,             \* the query-result LRU: key -> entry
    callers,           \* the calls of getCachedResult
    watchers,          \* the calls of handleWatchedEpisode
    upstream,          \* the list entry of the item at AniList: progress, status
    media,             \* the item at AniList: episodes (0: unknown), isMovie
    newStatus,         \* the undeclared (hence global) newStatus of updateAnilistProgress
    anilistIdCache,    \* the mapping LRU of id-mapping.js: <<source, id>> -> anilist id
    ids,               \* the rows of the table ids of the durable store
    dbLog,             \* the last cacheToDatabase call: its arguments and how it ended
    resolvers,         \* the calls of getAnilistId
    requests,          \* the requests of the host to the handlers of addon.js
    probe,             \* two variables objects and the cache keys derived from them
    clock,             \* the time, and the times set by the 429 answers
    tokens             \* the token each call of getCachedResult is made with

gateway == <<limiter, rateLimitPromise, timers, windowDispatches>>
\* ID resolution and its store.
mapping == <<anilistIdCache, ids, dbLog, resolvers>>
\* What the timed and the key specifications add.
other == <<probe, clock, tokens>>
\* What lies beside the AniList client: ID resolution, the handlers, and
\* what the timed and the key specifications add.
aside == <<anilistIdCache, ids, dbLog, resolvers, requests, probe, clock, tokens>>
app == <<cache, callers, watchers, upstream, media, newStatus, aside>>
\* The AniList client: the gateway, the query cache and the reconciliation.
client == <<limiter, rateLimitPromise, timers, windowDispatches, submitted,
            cache, callers, watchers, upstream, media, newStatus>>
vars == <<limiter, rateLimitPromise, timers, windowDispatches, submitted,
          cache, callers, watchers, upstream, media, newStatus,
          anilistIdCache, ids, dbLog, resolvers, requests, probe, clock, tokens>>

\* ---------------------------------------------------------------- constants
maxConcurrent == 5
reservoirStart == 30
reservoirRefreshAmount == 30
retryBudget == 3

\* ------------------------------------------------------------------- bounds
MaxRequests == 3
MaxLoad == 6
MaxStorm == 8
MaxCallers == 2
MaxKeys == 2
MaxWatchers == 2
MaxEpisode == 2
MaxLive == 2
MaxAnilist == 2
MaxExternal == 2
MaxResolvers == 2
MaxLookup == 1
MaxEvents == 2
MaxFields == 2
MaxTimed == 2
MaxTime == 4
MaxRetryAfter == 2
MaxTokens == 2

\* NULL in a column, null in JavaScript.
Null == 0

\* What parseInt makes of a text that holds no number: NaN.
NaN == -1

\* if (value): neither null nor NaN.
Truthy(v) == v # Null /\ v # NaN

\* The anilist id of the item the watch events are about.
ItemId == 1

\* --------------------------------------------------------------- job records
NoPause == 0

Errors == {"http", "network", "graphql"}
Outcomes == {"ok", "429"} \cup Errors

\* What a response carries: the list entry as AniList holds it.
NoData == [progress |-> -1, status |-> "?"]

Payload(op, who) == [op |-> op, who |-> who]

\* A job of limiter.schedule: where its task stands, Bottleneck's retryCount,
\* how often its fetch was started, the pause promise it awaits, and the
\* answer to its last fetch.
NewJob(p) ==
    [op |-> p.op, who |-> p.who, phase |-> "scheduled", retryCount |-> 0,
     dispatches |-> 0, awaits |-> NoPause, outcome |-> "none", data |-> NoData]

BagAdd(b, e) == b (+) SetToBag({e})
BagRemove(b, e) == b (-) SetToBag({e})
JobsIn(lim) == BagToSet(lim.jobs)
Replace(lim, j, k) == [lim EXCEPT !.jobs = BagAdd(BagRemove(@, j), k)]

\* ------------------------------------------------------------ the limiter
\* LocalDatastore.computeCapacity / conditionsCheck for weight 1.
computeCapacity(lim) ==
    IF maxConcurrent - lim.running < lim.reservoir
    THEN maxConcurrent - lim.running
    ELSE lim.reservoir

conditionsCheckReservoirOnly(lim) == 1 <= lim.reservoir

conditionsCheck(lim) == 1 <= computeCapacity(lim)

\* __register__ and _run: the head of the queue is admitted: running goes
\* up, the reservoir down, and the job waits for its start timer.
Register(lim) ==
    [queue |-> Tail(lim.queue),
     jobs |-> BagAdd(lim.jobs, NewJob(Head(lim.queue))),
     running |-> lim.running + 1,
     reservoir |-> lim.reservoir - 1]

\* _drainAll: admit from the head of the queue while capacity lasts.
RECURSIVE DrainAll(_)
DrainAll(lim) ==
    IF Len(lim.queue) = 0 \/ ~conditionsCheck(lim)
    THEN lim
    ELSE DrainAll(Register(lim))

\* limiter.schedule(task): the job joins the queue, then the queue is drained.
Schedule(lim, p) == DrainAll([lim EXCEPT !.queue = Append(@, p)])

\* __free__: the job leaves the running count, then the queue is drained.
Free(lim) == DrainAll([lim EXCEPT !.running = @ - 1])

\* ------------------------------------------------------------ the event loop
PauseNeverSettles(p) == FALSE

PauseSettledAtOnce(p) == p # NoPause

\* The promise of a pause has been resolved by its setTimeout.
PauseSettled(p) == p # NoPause /\ p \notin timers

Runnable(j) ==
    \/ j.phase = "settled"
    \/ j.phase \in {"pauseWait", "handlerWait"} /\ PauseSettled(j.awaits)

Quiescent == \A j \in JobsIn(limiter) : ~Runnable(j)

\* ------------------------------------------------------ makeGraphQLRequest
\* The await fetch(endpoint, options) of the task: an upstream dispatch.
Dispatched(j) ==
    [j EXCEPT !.phase = "fetching", !.dispatches = @ + 1, !.awaits = NoPause]

\* The start (or retry) timer of an admitted job fires: the task runs up to
\* its first await: the shared pause if one is set, else the fetch.
Execute(j) ==
    /\ Quiescent
    /\ j \in JobsIn(limiter)
    /\ j.phase = "scheduled"
    /\ IF rateLimitPromise # NoPause
       THEN /\ limiter' = Replace(limiter, j,
                  [j EXCEPT !.phase = "pauseWait", !.awaits = rateLimitPromise])
            /\ UNCHANGED windowDispatches
       ELSE /\ limiter' = Replace(limiter, j, Dispatched(j))
            /\ windowDispatches' = windowDispatches + 1
    /\ UNCHANGED <<rateLimitPromise, timers, submitted, app>>

\* The pause a task awaited has elapsed: the task goes on to its fetch.
\* Continuations of one promise run in the order of their awaits, and the
\* handler that made the pause awaited it at once: a handler has cleared
\* rateLimitPromise before a task goes on.
PauseResume(j) ==
    /\ j \in JobsIn(limiter)
    /\ j.phase = "pauseWait"
    /\ PauseSettled(j.awaits)
    /\ rateLimitPromise # j.awaits
    /\ limiter' = Replace(limiter, j, Dispatched(j))
    /\ windowDispatches' = windowDispatches + 1
    /\ UNCHANGED <<rateLimitPromise, timers, submitted, app>>

\* ------------------------------------------------- limiter.on("failed")
NewPauseId ==
    LET used == timers \cup {j.awaits : j \in JobsIn(limiter)} \cup {rateLimitPromise}
    IN  CHOOSE n \in 1..(Cardinality(used) + 1) : n \notin used

EstablishPauseAlways(current) == TRUE

\* if (!rateLimitPromise) rateLimitPromise = new Promise(setTimeout ...)
EstablishPause(current) == current = NoPause

RetryAllowedOnceMore(retryCount) == retryCount <= retryBudget

\* jobInfo.retryCount < 3 ? retryAfter * 1000 : null
RetryAllowed(retryCount) == retryCount < retryBudget

RetryOtherToo(err) == TRUE

\* What the handler returns for an error that is not a 429: null, no retry.
RetryOther(err) == FALSE

\* The job is done: doDone, __free__, and the promise of schedule settles.
Settle(lim, j, outcome, data) ==
    Replace(Free(lim), j, [j EXCEPT !.phase = "settled", !.outcome = outcome,
                                    !.awaits = NoPause, !.data = data])

\* What AniList holds after it has served the request of job j: a
\* SaveMediaListEntry stores the progress and status it carries.
Served(j) ==
    IF j.op = "write" THEN watchers[j.who].vars ELSE upstream

\* The answer to a fetch arrives.
Respond(j, outcome) ==
    /\ Quiescent
    /\ j \in JobsIn(limiter)
    /\ j.phase = "fetching"
    /\ outcome \in Outcomes
    /\ CASE outcome = "ok" ->
              /\ upstream' = Served(j)
              /\ limiter' = Settle(limiter, j, "ok", Served(j))
              /\ UNCHANGED <<rateLimitPromise, timers>>
         [] outcome = "429" ->
              LET p == IF EstablishPause(rateLimitPromise)
                       THEN NewPauseId ELSE rateLimitPromise
              IN  /\ rateLimitPromise' = p
                  /\ timers' = IF EstablishPause(rateLimitPromise)
                               THEN timers \cup {p} ELSE timers
                  /\ limiter' = Replace(limiter, j,
                        [j EXCEPT !.phase = "handlerWait", !.awaits = p,
                                  !.outcome = "429"])
                  /\ UNCHANGED upstream
         [] OTHER ->
              /\ limiter' =
                    IF RetryOther(outcome)
                    THEN Replace(limiter, j,
                           [j EXCEPT !.phase = "scheduled", !.outcome = outcome,
                                     !.retryCount = @ + 1])
                    ELSE Settle(limiter, j, outcome, NoData)
              /\ UNCHANGED <<rateLimitPromise, timers, upstream>>
    /\ UNCHANGED <<windowDispatches, submitted, cache, callers, watchers, media,
                   newStatus, aside>>

\* The setTimeout of a pause promise fires: the promise resolves.
PauseElapsed(p) ==
    /\ Quiescent
    /\ p \in timers
    /\ timers' = timers \ {p}
    /\ UNCHANGED <<limiter, rateLimitPromise, windowDispatches, submitted, app>>

\* The handler goes on after await rateLimitPromise: it clears the marker and
\* asks for a retry while the budget lasts, else the job fails.
HandlerResume(j) ==
    /\ j \in JobsIn(limiter)
    /\ j.phase = "handlerWait"
    /\ PauseSettled(j.awaits)
    /\ rateLimitPromise' = NoPause
    /\ limiter' =
          IF RetryAllowed(j.retryCount)
          THEN Replace(limiter, j,
                 [j EXCEPT !.phase = "scheduled", !.retryCount = @ + 1,
                           !.awaits = NoPause])
          ELSE Settle(limiter, j, "429", NoData)
    /\ UNCHANGED <<timers, windowDispatches, submitted, app>>

\* The heartbeat of the reservoir: every reservoirRefreshInterval the
\* reservoir is set to reservoirRefreshAmount and the queue drained.
Refill ==
    /\ Quiescent
    /\ limiter' = DrainAll([limiter EXCEPT !.reservoir = reservoirRefreshAmount])
    /\ windowDispatches' = 0
    /\ UNCHANGED <<rateLimitPromise, timers, submitted, app>>

\* ------------------------------------------------ callers of the gateway
\* Some caller hands a request to makeGraphQLRequest.
SubmitRequest(bound) ==
    /\ Quiescent
    /\ submitted < bound
    /\ submitted' = submitted + 1
    /\ limiter' = Schedule(limiter, Payload("request", 0))
    /\ UNCHANGED <<rateLimitPromise, timers, windowDispatches, app>>

\* The promise makeGraphQLRequest returned settles towards its caller.
DeliverRequest(j) ==
    /\ j \in JobsIn(limiter)
    /\ j.phase = "settled"
    /\ j.op = "request"
    /\ limiter' = [limiter EXCEPT !.jobs = BagRemove(@, j)]
    /\ UNCHANGED <<rateLimitPromise, timers, windowDispatches, submitted, app>>

\* ------------------------------------------------------- getCachedResult
Keys == 1..MaxKeys
Callers == 1..MaxCallers

\* A cache entry: absent, the pending promise of the fetch a call started
\* (named by that call), or the resolved promise of the data a fetch brought.
Absent == [kind |-> "absent", fetch |-> 0, data |-> NoData]
Pending(f) == [kind |-> "pending", fetch |-> f, data |-> NoData]
Value(f, d) == [kind |-> "value", fetch |-> f, data |-> d]

IdleCaller == [state |-> "idle", key |-> 0, awaits |-> 0, by |-> 0, data |-> NoData]

\* The fetches (named by the call that started them) whose job the gateway
\* still holds: queued, admitted, or settled and about to be delivered.
InFlight ==
    {limiter.queue[i].who : i \in {n \in 1..Len(limiter.queue) :
                                     limiter.queue[n].op = "query"}}
    \cup {j.who : j \in {x \in JobsIn(limiter) : x.op = "query"}}

cacheHasNever(k) == FALSE

\* cache.has(key)
cacheHas(k) == cache[k].kind # "absent"

\* .then: cache.set(key, Promise.resolve(data))
OnFetched(entry, f, d) == Value(f, d)

OnFetchFailedKeeps(entry) == entry

\* .catch: cache.delete(key)
OnFetchFailed(entry) == Absent

\* What a caller holds once the promise it was handed has settled.
Got(c, k, f, d) == [state |-> "done", key |-> k, awaits |-> c.awaits, by |-> f, data |-> d]
Thrown(c, k, f) == [state |-> "failed", key |-> k, awaits |-> c.awaits, by |-> f, data |-> NoData]

\* getCachedResult(query, variables, token, fetchFn) with cache key k.
getCachedResult(c, k) ==
    /\ IF cacheHas(k)
       THEN LET e == cache[k]
            IN  /\ callers' = [callers EXCEPT ![c] =
                      IF e.kind = "value" THEN Got(@, k, e.fetch, e.data)
                      ELSE IF e.fetch \in InFlight
                      THEN [@ EXCEPT !.state = "waiting", !.key = k, !.awaits = e.fetch]
                      ELSE Thrown([@ EXCEPT !.awaits = e.fetch], k, e.fetch)]
                /\ UNCHANGED <<limiter, cache>>
       ELSE /\ limiter' = Schedule(limiter, Payload("query", c))
            /\ cache' = [cache EXCEPT ![k] = Pending(c)]
            /\ callers' = [callers EXCEPT ![c] =
                  [@ EXCEPT !.state = "waiting", !.key = k, !.awaits = c]]
    /\ UNCHANGED <<rateLimitPromise, timers, windowDispatches, submitted,
                   watchers, upstream, media, newStatus, mapping, other>>

\* Some caller outside the handlers calls getCachedResult.
Call(c, k) ==
    /\ Quiescent
    /\ callers[c].state = "idle"
    /\ getCachedResult(c, k)
    /\ UNCHANGED requests

\* The promise of fetchFn settles: .then or .catch runs, then every caller
\* that was handed the promise goes on.
DeliverQuery(j) ==
    /\ j \in JobsIn(limiter)
    /\ j.phase = "settled"
    /\ j.op = "query"
    /\ LET f == j.who
           k == callers[f].key
       IN  /\ cache' = [cache EXCEPT ![k] =
                  IF j.outcome = "ok" THEN OnFetched(@, f, j.data)
                  ELSE OnFetchFailed(@)]
           /\ callers' = [c \in Callers |->
                  IF callers[c].state = "waiting" /\ callers[c].awaits = f
                  THEN IF j.outcome = "ok"
                       THEN Got(callers[c], k, f, j.data)
                       ELSE Thrown(callers[c], k, f)
                  ELSE callers[c]]
    /\ limiter' = [limiter EXCEPT !.jobs = BagRemove(@, j)]
    /\ UNCHANGED <<rateLimitPromise, timers, windowDispatches, submitted,
                   watchers, upstream, media, newStatus, aside>>

\* -------------------------------------------------- handleWatchedEpisode
Watchers == 1..MaxWatchers
Episodes == 1..MaxEpisode

\* What getAnilistMediaListEntry returns when it has no details: null, or
\* { notFound: true } (the callers treat the two alike).
NoEntry ==
    [isNull |-> TRUE, currentProgress |-> 0, currentStatus |-> "none",
     totalEpisodes |-> 0, isMovie |-> FALSE]

\* A call of handleWatchedEpisode: where it stands, its arguments, the id
\* its entry fetch and its write carry, the entry data it fetched, the
\* variables of its write, and whether it has run cache.clear().
IdleWatcher ==
    [state |-> "idle", episode |-> 0, preAddedOnly |-> FALSE,
     targetAnilistId |-> Null,
     entry |-> NoEntry, vars |-> NoData, cleared |-> FALSE]

\* getAnilistMediaListEntry: the entry data made of the answer (status
\* "none": no list entry; totalEpisodes 0: episodes is null), or no details
\* when the request failed.
EntryData(j) ==
    IF j.outcome = "ok"
    THEN [isNull |-> FALSE, currentProgress |-> j.data.progress,
          currentStatus |-> j.data.status, totalEpisodes |-> media.episodes,
          isMovie |-> media.isMovie]
    ELSE NoEntry

NewProgressIsEpisode(e, ep) == ep

\* const newProgress = isMovie ? 1 : targetEpisode
NewProgress(e, ep) == IF e.isMovie THEN 1 ELSE ep

NoDetailsNever(e) == FALSE

\* !currentEntryData || currentEntryData.notFound
NoDetails(e) == e.isNull

NotOnListWhenNull(e) == e.isNull

\* !isOnList, isOnList = entryData && entryData.currentStatus != null
NotOnList(e) == e.isNull \/ e.currentStatus = "none"

AlreadyThereStrict(e, np) == e.currentProgress > np

\* currentProgress >= newProgress
AlreadyThere(e, np) == e.currentProgress >= np

BeyondTotalByTwo(e, np) ==
    ~e.isMovie /\ e.totalEpisodes # 0 /\ np > e.totalEpisodes + 1

\* !isMovie && totalEpisodes != null && newProgress > totalEpisodes
BeyondTotal(e, np) == ~e.isMovie /\ e.totalEpisodes # 0 /\ np > e.totalEpisodes

CompletesStrict(e, np) ==
    e.isMovie \/ (e.totalEpisodes # 0 /\ np > e.totalEpisodes)

\* isMovie || (totalEpisodes != null && newProgress >= totalEpisodes)
Completes(e, np) == e.isMovie \/ (e.totalEpisodes # 0 /\ np >= e.totalEpisodes)

\* The global newStatus after the assignments of updateAnilistProgress,
\* given its value g before the call.
StatusAssigned(e, np, g) ==
    LET g1 == IF Completes(e, np)
              THEN "COMPLETED"
              ELSE IF e.currentStatus # "none" /\ e.currentStatus # "CURRENT"
              THEN e.currentStatus
              ELSE g
    IN  IF e.currentStatus = "COMPLETED" /\ g1 # "COMPLETED" THEN "CURRENT" ELSE g1

\* What handleWatchedEpisode does with the entry data: "skip" (it returns
\* without a write), "throw" (newStatus is read before any call has assigned
\* it) or "write".
Decide(e, ep, pre, g) ==
    LET np == NewProgress(e, ep)
    IN  IF pre /\ NotOnList(e) THEN "skip"
        ELSE IF NoDetails(e) THEN "skip"
        ELSE IF AlreadyThere(e, np) THEN "skip"
        ELSE IF BeyondTotal(e, np) THEN "skip"
        ELSE IF StatusAssigned(e, np, g) = "undeclared" THEN "throw"
        ELSE "write"

\* handleWatchedEpisode(animeName, anilistId, currentEpisode, preAddedOnly,
\* token) with an anilistId: it asks for the current entry.
handleWatchedEpisode(w, ep, pre) ==
    /\ watchers[w].state = "idle"
    /\ watchers' = [watchers EXCEPT ![w] =
          [@ EXCEPT !.state = "reading", !.episode = ep, !.preAddedOnly = pre,
                    !.targetAnilistId = ItemId]]
    /\ limiter' = Schedule(limiter, Payload("read", w))
    /\ UNCHANGED <<rateLimitPromise, timers, windowDispatches, submitted,
                   cache, callers, upstream, media, newStatus, mapping, other>>

\* Some caller outside the handlers reports a watched episode.
Watch(w, ep, pre) ==
    /\ Quiescent
    /\ handleWatchedEpisode(w, ep, pre)
    /\ UNCHANGED requests

\* The entry request has settled: handleWatchedEpisode goes on into
\* updateAnilistProgress, which clears the cache and sends the mutation.
DeliverRead(j) ==
    /\ j \in JobsIn(limiter)
    /\ j.phase = "settled"
    /\ j.op = "read"
    /\ LET w == j.who
           e == EntryData(j)
           ep == watchers[w].episode
           np == NewProgress(e, ep)
           d == Decide(e, ep, watchers[w].preAddedOnly, newStatus)
           rest == [limiter EXCEPT !.jobs = BagRemove(@, j)]
       IN  CASE d = "write" ->
                  /\ newStatus' = StatusAssigned(e, np, newStatus)
                  /\ cache' = [k \in Keys |-> Absent]
                  /\ watchers' = [watchers EXCEPT ![w] =
                        [@ EXCEPT !.state = "writing", !.cleared = TRUE,
                                  !.entry = e,
                                  !.vars = [progress |-> np,
                                            status |-> StatusAssigned(e, np, newStatus)]]]
                  /\ limiter' = Schedule(rest, Payload("write", w))
             [] d = "throw" ->
                  /\ watchers' = [watchers EXCEPT ![w] = [@ EXCEPT !.state = "failed", !.entry = e]]
                  /\ limiter' = rest
                  /\ UNCHANGED <<newStatus, cache>>
             [] OTHER ->
                  /\ watchers' = [watchers EXCEPT ![w] = [@ EXCEPT !.state = "skipped", !.entry = e]]
                  /\ limiter' = rest
                  /\ UNCHANGED <<newStatus, cache>>
    /\ UNCHANGED <<rateLimitPromise, timers, windowDispatches, submitted,
                   callers, upstream, media, aside>>

\* The mutation has settled: updateAnilistProgress returns, or rethrows.
DeliverWrite(j) ==
    /\ j \in JobsIn(limiter)
    /\ j.phase = "settled"
    /\ j.op = "write"
    /\ watchers' = [watchers EXCEPT ![j.who] =
          [@ EXCEPT !.state = IF j.outcome = "ok" THEN "done" ELSE "failed"]]
    /\ limiter' = [limiter EXCEPT !.jobs = BagRemove(@, j)]
    /\ UNCHANGED <<rateLimitPromise, timers, windowDispatches, submitted,
                   cache, callers, upstream, media, newStatus, aside>>

\* ------------------------------------------------ the durable store (sqlite)
\* The alternate schemes getAnilistId resolves.  The columns thetvdb and
\* themoviedb have the same shape and are written by the same statement
\* (cacheExternalIdToDb); a statement touches one column, so the two
\* columns here stand for all four.
Schemes == {"kitsu", "imdb"}
AnilistIds == 1..MaxAnilist
ExternalIds == 1..MaxExternal

NewRowBlank(a, source, x) == [anilist |-> a, kitsu |-> Null, imdb |-> Null]

\* INSERT INTO ids (anilist, ${source}) VALUES (?, ?): the other columns
\* of the new row are NULL.
NewRow(a, source, x) ==
    [anilist |-> a,
     kitsu |-> IF source = "kitsu" THEN x ELSE Null,
     imdb |-> IF source = "imdb" THEN x ELSE Null]

\* SELECT anilist FROM ids WHERE ${source} = ?, then row ? row.anilist : null
Select(table, source, x) ==
    IF \E r \in table : r[source] = x
    THEN (CHOOSE r \in table : r[source] = x).anilist
    ELSE Null

UniqueNeverFails(table, a, source, x) == FALSE

\* The UNIQUE constraint of an alternate column: the value is held by the
\* row of another anilist id.
UniqueFails(table, a, source, x) ==
    \E r \in table : r.anilist # a /\ r[source] = x

\* The statement of cacheToDatabase and cacheExternalIdToDb.  A violated
\* UNIQUE constraint aborts the statement; else a new row is inserted, or
\* ON CONFLICT(anilist) the column of the row is set where it is NULL or
\* differs.
Upsert(table, a, source, x) ==
    IF UniqueFails(table, a, source, x)
    THEN [table |-> table, err |-> "UNIQUE constraint failed"]
    ELSE IF \A r \in table : r.anilist # a
    THEN [table |-> table \cup {NewRow(a, source, x)}, err |-> "none"]
    ELSE LET r == CHOOSE o \in table : o.anilist = a
         IN  IF r[source] = Null \/ r[source] # x
             THEN [table |-> (table \ {r}) \cup {[r EXCEPT ![source] = x]},
                   err |-> "none"]
             ELSE [table |-> table, err |-> "none"]

\* How a run of sqlite can end apart from its constraints: "io" stands for
\* SQLITE_BUSY, a disk error, a missing table.
DbFaults == {"none", "io"}

\* err.message.includes("UNIQUE constraint failed"): a warning, resolve().
OnConstraint == "resolved"

\* cacheToDatabase(anilistId, externalId, source): the table afterwards and
\* how the promise settles.
cacheToDatabase(table, a, x, source, fault) ==
    IF fault # "none"
    THEN [table |-> table, result |-> "rejected"]
    ELSE LET u == Upsert(table, a, source, x)
         IN  [table |-> u.table,
              result |-> IF u.err = "none" THEN "resolved" ELSE OnConstraint]

NoDbCall ==
    [anilist |-> Null, source |-> "none", value |-> Null, result |-> "none",
     again |-> FALSE]

\* The record of a call; again: the call before it had the same arguments
\* and resolved.
DbCall(a, x, source, result) ==
    [anilist |-> a, source |-> source, value |-> x, result |-> result,
     again |-> /\ dbLog.anilist = a /\ dbLog.source = source
               /\ dbLog.value = x /\ dbLog.result = "resolved"]

\* ------------------------------------------------------------ getAnilistId
Resolvers == 1..MaxResolvers
CacheKeys == Schemes \X ExternalIds

\* A call of getAnilistId: where it stands, its arguments, the anilistId it
\* works with and the value it returned; and, to state its contract, the
\* mapping the cache or the store held when it began, the number of remote
\* calls it made and the kind of the last remote answer.
IdleResolver ==
    [state |-> "idle", source |-> "none", id |-> Null, anilistId |-> Null,
     value |-> Null, seen |-> Null, remote |-> 0, answer |-> "none"]

\* What a remote service sends: a failure, no mapping, the anilist id as a
\* number, or a text that holds no number.
RemoteAnswers ==
    [kind : {"error", "none", "garbage"}, id : {Null}]
        \cup [kind : {"id"}, id : AnilistIds]

\* fetchAnilistIdFromKitsu and fetchAnilistIdFromArm: null when the request
\* fails or the answer holds no mapping, else parseInt of the id.
fetchAnilistIdFrom(ans) ==
    IF ans.kind \in {"error", "none"} THEN Null
    ELSE IF ans.kind = "id" THEN ans.id
    ELSE NaN

IdCacheHas(key) == anilistIdCache[key] # Null

Returned(rv, v) == [rv EXCEPT !.state = "returned", !.value = v]

\* getAnilistId(id, source) up to its first await: a cache hit returns,
\* else the store is asked.
Resolving(id, source) ==
    LET key == <<source, id>>
        rv == [IdleResolver EXCEPT !.source = source, !.id = id,
                  !.seen = IF IdCacheHas(key) THEN anilistIdCache[key]
                           ELSE Select(ids, source, id)]
    IN  IF IdCacheHas(key) THEN Returned(rv, anilistIdCache[key])
        ELSE [rv EXCEPT !.state = "dbRead"]

getAnilistId(r, id, source) ==
    /\ resolvers[r].state = "idle"
    /\ resolvers' = [resolvers EXCEPT ![r] = Resolving(id, source)]
    /\ UNCHANGED <<client, other, anilistIdCache, ids, dbLog>>

\* Some caller outside the handlers calls getAnilistId.
GetAnilistId(r, id, source) ==
    /\ getAnilistId(r, id, source)
    /\ UNCHANGED requests

ReadErrorThrown == FALSE

\* try { await getFromDatabase(id, source) } catch (dbError) { log }
ReadErrorCaught == TRUE

LookupArmOnly(rv) == [rv EXCEPT !.state = "arm", !.remote = @ + 1]

\* The first remote lookup: the Kitsu mapping API for a kitsu id, else ARM.
Lookup(rv) ==
    [rv EXCEPT !.state = IF rv.source = "kitsu" THEN "kitsu" ELSE "arm",
               !.remote = @ + 1]

\* getFromDatabase settles: a row is cached and returned; no row, or an
\* error, leads to the remote lookups.
DbRead(r, fault) ==
    /\ resolvers[r].state = "dbRead"
    /\ LET rv == resolvers[r]
           cachedId == Select(ids, rv.source, rv.id)
       IN  IF fault = "none" /\ Truthy(cachedId)
           THEN /\ anilistIdCache' =
                      [anilistIdCache EXCEPT ![<<rv.source, rv.id>>] = cachedId]
                /\ resolvers' = [resolvers EXCEPT ![r] = Returned(rv, cachedId)]
           ELSE /\ resolvers' = [resolvers EXCEPT ![r] =
                      IF fault # "none" /\ ~ReadErrorCaught
                      THEN [rv EXCEPT !.state = "rejected"]
                      ELSE Lookup(rv)]
                /\ UNCHANGED anilistIdCache
    /\ UNCHANGED <<client, other, ids, dbLog, requests>>

\* if (anilistId): anilistIdCache.set, then await cacheToDatabase.
Found(rv, v) == [rv EXCEPT !.state = "dbWrite", !.anilistId = v]

\* fetchAnilistIdFromKitsu settles: an id is kept, else ARM is asked.
KitsuAnswer(r, ans) ==
    /\ resolvers[r].state = "kitsu"
    /\ LET rv == [resolvers[r] EXCEPT !.answer = ans.kind]
           v == fetchAnilistIdFrom(ans)
       IN  IF Truthy(v)
           THEN /\ anilistIdCache' =
                      [anilistIdCache EXCEPT ![<<rv.source, rv.id>>] = v]
                /\ resolvers' = [resolvers EXCEPT ![r] = Found(rv, v)]
           ELSE /\ resolvers' = [resolvers EXCEPT ![r] =
                      [rv EXCEPT !.state = "arm", !.remote = @ + 1]]
                /\ UNCHANGED anilistIdCache
    /\ UNCHANGED <<client, other, ids, dbLog, requests>>

\* fetchAnilistIdFromArm settles: an id is kept, else what it gave is
\* returned.
ArmAnswer(r, ans) ==
    /\ resolvers[r].state = "arm"
    /\ LET rv == [resolvers[r] EXCEPT !.answer = ans.kind]
           v == fetchAnilistIdFrom(ans)
       IN  IF Truthy(v)
           THEN /\ anilistIdCache' =
                      [anilistIdCache EXCEPT ![<<rv.source, rv.id>>] = v]
                /\ resolvers' = [resolvers EXCEPT ![r] = Found(rv, v)]
           ELSE /\ resolvers' = [resolvers EXCEPT ![r] = Returned(rv, v)]
                /\ UNCHANGED anilistIdCache
    /\ UNCHANGED <<client, other, ids, dbLog, requests>>

\* cacheToDatabase settles, resolved or rejected (the rejection is caught
\* and logged): the id is returned.
DbWrite(r, fault) ==
    /\ resolvers[r].state = "dbWrite"
    /\ LET rv == resolvers[r]
           c == cacheToDatabase(ids, rv.anilistId, rv.id, rv.source, fault)
       IN  /\ ids' = c.table
           /\ dbLog' = DbCall(rv.anilistId, rv.id, rv.source, c.result)
           /\ resolvers' = [resolvers EXCEPT ![r] = Returned(rv, rv.anilistId)]
    /\ UNCHANGED <<client, other, anilistIdCache, requests>>

\* The caller has the value; the next call can begin.
ResolverDone(r) ==
    /\ resolvers[r].state = "returned"
    /\ resolvers' = [resolvers EXCEPT ![r] = IdleResolver]
    /\ UNCHANGED <<client, other, anilistIdCache, ids, dbLog, requests>>

\* Some caller runs cacheToDatabase (or cacheExternalIdToDb) on its own.
CacheToDatabaseCall(a, x, source, fault) ==
    /\ LET c == cacheToDatabase(ids, a, x, source, fault)
       IN  /\ ids' = c.table
           /\ dbLog' = DbCall(a, x, source, c.result)
    /\ UNCHANGED <<client, other, anilistIdCache, resolvers, requests>>

\* The mapping cache of a fresh process, and no call under way.
InitResolvers ==
    /\ anilistIdCache = [key \in CacheKeys |-> Null]
    /\ dbLog = NoDbCall
    /\ resolvers = [r \in Resolvers |-> IdleResolver]

\* ----------------------------------------------- the handlers (addon.js)
\* Request h of the host runs getAnilistId as call h, handleWatchedEpisode
\* as call h and getCachedResult as caller h.
Requests == 1..MaxEvents

\* A request: where its handler stands, the token of its config (given or
\* not), the episode it parsed, preAddedOnly, and what the host got back.
IdleRequest ==
    [state |-> "idle", handler |-> "none", token |-> FALSE, episode |-> 0,
     preAddedOnly |-> FALSE, reply |-> "none"]

TokenNeverMissing(token) == FALSE

\* if (!token)
TokenMissing(token) == ~token

\* return Promise.reject(new Error("Anilist token not configured."))
Refused(q) ==
    [q EXCEPT !.state = "rejected", !.reply = "Anilist token not configured."]

\* return Promise.resolve({ subtitles: [] })
Acknowledged(q) == [q EXCEPT !.state = "replied", !.reply = "subtitles: []"]

\* return { metas }
Listed(q) == [q EXCEPT !.state = "replied", !.reply = "metas"]

\* The parts of args.id: the prefix, and texts that hold a number, no
\* number (BadText) or are missing (NoText).
Prefixes == {"kitsu", "tt", "anilist", "other"}
NoText == -2
BadText == -3

parseInt(t) == IF t >= 0 THEN t ELSE NaN

\* episode = args.type === "movie" ? 1 : parseInt(currEp || "1")
EpisodeOf(type, currEp) ==
    IF type = "movie" THEN 1
    ELSE IF currEp = NoText THEN 1
    ELSE parseInt(currEp)

SyncErrorThrown == FALSE

\* try { ... await handleWatchedEpisode(...) } catch (err) { log }
SyncErrorCaught == TRUE

\* The subtitles handler up to its first await.  Without a token it
\* rejects; a kitsu or tt id goes to getAnilistId; an anilist id with an
\* episode goes to handleWatchedEpisode; else the handler acknowledges.
\* (The name search through Cinemeta is left out: for a tt id the requests
\* are of type series with enableSearch off.)
Subtitles(h, token, prefix, id, type, currEp, pre) ==
    /\ Quiescent
    /\ requests[h].state = "idle"
    /\ LET episode == EpisodeOf(type, currEp)
           q == [IdleRequest EXCEPT !.handler = "subtitles", !.token = token,
                    !.episode = episode, !.preAddedOnly = pre]
       IN  IF TokenMissing(token)
           THEN /\ requests' = [requests EXCEPT ![h] = Refused(q)]
                /\ UNCHANGED <<client, other, mapping>>
           ELSE IF prefix \in {"kitsu", "tt"}
           THEN /\ getAnilistId(h, id, IF prefix = "kitsu" THEN "kitsu" ELSE "imdb")
                /\ requests' = [requests EXCEPT ![h] = [q EXCEPT !.state = "resolving"]]
           ELSE IF prefix = "anilist" /\ Truthy(parseInt(id)) /\ episode > 0
           THEN /\ handleWatchedEpisode(h, episode, pre)
                /\ requests' = [requests EXCEPT ![h] = [q EXCEPT !.state = "syncing"]]
           ELSE /\ requests' = [requests EXCEPT ![h] = Acknowledged(q)]
                /\ UNCHANGED <<client, other, mapping>>

\* getAnilistId has returned: with an id and an episode the handler calls
\* handleWatchedEpisode, else it acknowledges.
Resolved(h) ==
    /\ requests[h].state = "resolving"
    /\ resolvers[h].state = "returned"
    /\ LET q == requests[h]
       IN  IF Truthy(resolvers[h].value) /\ q.episode > 0
           THEN /\ handleWatchedEpisode(h, q.episode, q.preAddedOnly)
                /\ requests' = [requests EXCEPT ![h] = [q EXCEPT !.state = "syncing"]]
           ELSE /\ requests' = [requests EXCEPT ![h] = Acknowledged(q)]
                /\ UNCHANGED <<client, other, mapping>>

\* handleWatchedEpisode has settled; a rejection is caught and logged.
Synced(h) ==
    /\ requests[h].state = "syncing"
    /\ watchers[h].state \in {"done", "failed", "skipped"}
    /\ requests' = [requests EXCEPT ![h] =
          IF watchers[h].state = "failed" /\ ~SyncErrorCaught
          THEN [@ EXCEPT !.state = "rejected", !.reply = "sync error"]
          ELSE Acknowledged(@)]
    /\ UNCHANGED <<client, other, mapping>>

\* The cache key of the name search of request h: the requests are for
\* different titles.
SearchKey(h) == h

\* getAnilistId has returned no id for a tt id and Cinemeta has given a
\* name (for a movie, or for a series with enableSearch on): the handler
\* calls handleWatchedEpisode(animeName, null, episode, ...), which searches
\* AniList by the name, through the query cache.
ResolvedByName(h) ==
    /\ requests[h].state = "resolving"
    /\ resolvers[h].state = "returned"
    /\ resolvers[h].source = "imdb"
    /\ ~Truthy(resolvers[h].value)
    /\ requests[h].episode > 0
    /\ callers[h].state = "idle"
    /\ getCachedResult(h, SearchKey(h))
    /\ requests' = [requests EXCEPT ![h] = [@ EXCEPT !.state = "searching"]]

\* getAnilistEntryByName has settled: the id of the first media found, or
\* null when none was found or the search failed.
Searched(c, found) == IF c.state = "done" /\ found THEN ItemId ELSE Null

\* The name search has settled: handleWatchedEpisode logs "Skipping
\* update" when it has no id, and asks for the current entry of the id it
\* has, or of null.
NameSearched(h, found) ==
    /\ requests[h].state = "searching"
    /\ callers[h].state \in {"done", "failed"}
    /\ LET id == Searched(callers[h], found)
       IN  /\ watchers' = [watchers EXCEPT ![h] =
                 [@ EXCEPT !.state = "reading",
                           !.episode = requests[h].episode,
                           !.preAddedOnly = requests[h].preAddedOnly,
                           !.targetAnilistId = id]]
           /\ limiter' = Schedule(limiter, Payload("read", h))
    /\ requests' = [requests EXCEPT ![h] = [@ EXCEPT !.state = "syncing"]]
    /\ UNCHANGED <<rateLimitPromise, timers, windowDispatches, submitted,
                   cache, callers, upstream, media, newStatus, mapping, other>>

\* The cache keys of the two queries of getCatalog: the Viewer and the list.
ViewerKey == 1
ListKey == 2

\* The catalog handler up to its first await: without a token it rejects,
\* else getCatalog asks for the Viewer.
Catalog(h, token) ==
    /\ Quiescent
    /\ requests[h].state = "idle"
    /\ callers[h].state = "idle"
    /\ LET q == [IdleRequest EXCEPT !.handler = "catalog", !.token = token]
       IN  IF TokenMissing(token)
           THEN /\ requests' = [requests EXCEPT ![h] = Refused(q)]
                /\ UNCHANGED <<client, other, mapping>>
           ELSE /\ getCachedResult(h, ViewerKey)
                /\ requests' = [requests EXCEPT ![h] = [q EXCEPT !.state = "viewer"]]

\* getViewer has settled: getCatalog asks for the list; a failure is caught
\* by the handler, which answers with no metas.
CatalogViewer(h) ==
    /\ requests[h].state = "viewer"
    /\ callers[h].state \in {"done", "failed"}
    /\ IF callers[h].state = "done"
       THEN /\ getCachedResult(h, ListKey)
            /\ requests' = [requests EXCEPT ![h] = [@ EXCEPT !.state = "list"]]
       ELSE /\ requests' = [requests EXCEPT ![h] = Listed(@)]
            /\ UNCHANGED <<client, other, mapping>>

\* The list query has settled: the handler answers.
CatalogList(h) ==
    /\ requests[h].state = "list"
    /\ callers[h].state \in {"done", "failed"}
    /\ requests' = [requests EXCEPT ![h] = Listed(@)]
    /\ UNCHANGED <<client, other, mapping>>

\* Request h is the next of the host: the requests before it have been
\* answered.
HostNext(h) ==
    \A g \in Requests : g < h => requests[g].state \in {"replied", "rejected"}

\* ------------------------------------------------------------- getCacheKey
\* Property names are numbered in the order Array.prototype.sort gives them.
FieldNames == 1..MaxFields

\* A JSON value: a scalar, or an object as the sequence of its properties in
\* insertion order; NoVariables is a variables argument that is null or left
\* out.
Scalar(n) == [kind |-> "scalar", n |-> n, fields |-> <<>>]
Object(fs) == [kind |-> "object", n |-> 0, fields |-> fs]
NoVariables == [kind |-> "none", n |-> 0, fields |-> <<>>]
Field(name, value) == [name |-> name, value |-> value]

\* The property lists over the given values: no name twice.
FieldsOver(values) ==
    UNION {{fs \in [1..n -> [name : FieldNames, value : values]] :
               \A i, j \in 1..n : i # j => fs[i].name # fs[j].name} :
           n \in 0..MaxFields}

\* The variables objects: scalars, and objects one level down.
Nested == {Object(fs) : fs \in FieldsOver({Scalar(0)})}
Variables ==
    {Object(fs) : fs \in FieldsOver({Scalar(0), Scalar(1)} \cup Nested)}

\* Object.keys(o): the names in insertion order.
objectKeys(o) == [i \in 1..Len(o.fields) |-> o.fields[i].name]

KeysAsInserted(names) == names

\* Array.prototype.sort on the names.
sort(names) ==
    LET S == {names[i] : i \in DOMAIN names}
    IN  [i \in 1..Cardinality(S) |->
            CHOOSE x \in S : Cardinality({y \in S : y < x}) = i - 1]

HasOwn(o, name) == \E i \in DOMAIN o.fields : o.fields[i].name = name
Get(o, name) == o.fields[CHOOSE i \in DOMAIN o.fields : o.fields[i].name = name].value

\* JSON.stringify(value, replacer) with an array replacer: of every object,
\* at every depth, the properties the array names, in the order of the
\* array.  The text is held as the sequence of what it spells out.
RECURSIVE stringify(_, _)
RECURSIVE Properties(_, _, _)
Properties(o, replacer, i) ==
    IF i > Len(replacer) THEN <<>>
    ELSE (IF HasOwn(o, replacer[i])
          THEN <<Field(replacer[i], stringify(Get(o, replacer[i]), replacer))>>
          ELSE <<>>) \o Properties(o, replacer, i + 1)

stringify(value, replacer) ==
    IF value.kind = "object"
    THEN Object(Properties(value, replacer, 1))
    ELSE value

\* JSON.stringify({ query, variables: sortedVars }): the query and the text
\* of the variables, "" for none.
getCacheKey(query, variables) ==
    <<query,
      IF variables.kind = "none" THEN NoVariables
      ELSE stringify(variables, sort(objectKeys(variables)))>>

\* The same properties in another order of insertion, the nested objects
\* turned round or not.
Orders(n) == {f \in [1..n -> 1..n] : \A i, j \in 1..n : i # j => f[i] # f[j]}
Reverse(fs) == [i \in 1..Len(fs) |-> fs[Len(fs) + 1 - i]]
Reordered(o, f, turn) ==
    Object([i \in 1..Len(o.fields) |->
              LET p == o.fields[f[i]]
              IN  IF turn /\ p.value.kind = "object"
                  THEN Field(p.name, Object(Reverse(p.value.fields)))
                  ELSE p])

NoProbe ==
    [phase |-> "none", query |-> 0, a |-> NoVariables, b |-> NoVariables,
     keyA |-> <<>>, keyB |-> <<>>]

\* Two calls of the query cache: the key of each is derived.
DeriveKeys ==
    /\ probe.phase = "input"
    /\ probe' = [probe EXCEPT !.phase = "derived",
                              !.keyA = getCacheKey(probe.query, probe.a),
                              !.keyB = getCacheKey(probe.query, probe.b)]
    /\ UNCHANGED <<client, mapping, requests, clock, tokens>>

\* ---------------------------------------------------------------- the clock
\* The time in seconds, the time the timer of the pause fires, the latest
\* end of a retry-after a 429 has asked for, and per request the time before
\* which Bottleneck does not start it again.
InitClock ==
    [now |-> 0, pauseEnds |-> 0, quietUntil |-> 0,
     retryAt |-> [n \in 1..MaxTimed |-> 0]]

\* ----------------------------------------------------------------- tokens
\* The tokens of the users' configurations; call c of getCachedResult is
\* made with tokens[c], and the request of its fetch carries that token in
\* the Authorization header.
Tokens == 1..MaxTokens

\* Every call is made for one user.
OneToken == [c \in Callers |-> 1]

RetryAfters == 1..MaxRetryAfter

Later(a, b) == IF a >= b THEN a ELSE b

\* Some caller hands request n to makeGraphQLRequest.
SubmitTimed ==
    /\ Quiescent
    /\ submitted < MaxTimed
    /\ submitted' = submitted + 1
    /\ limiter' = Schedule(limiter, Payload("request", submitted + 1))
    /\ UNCHANGED <<rateLimitPromise, timers, windowDispatches, app>>

\* The start timer of a job fires, or the timer of its retry: not before
\* the wait the handler returned is over.
StartTimed(j) ==
    /\ clock.now >= clock.retryAt[j.who]
    /\ Execute(j)

\* A fetch is answered with 429 and retry-after: d.  The handler sets the
\* timer of a pause of d seconds if rateLimitPromise is not set, awaits
\* rateLimitPromise, and returns d * 1000 after it: the wait before the
\* retry starts when the pause ends.
Throttled(j, d) ==
    /\ Quiescent
    /\ j \in JobsIn(limiter)
    /\ j.phase = "fetching"
    /\ LET made == EstablishPause(rateLimitPromise)
           p == IF made THEN NewPauseId ELSE rateLimitPromise
           ends == IF made THEN clock.now + d ELSE clock.pauseEnds
       IN  /\ rateLimitPromise' = p
           /\ timers' = IF made THEN timers \cup {p} ELSE timers
           /\ limiter' = Replace(limiter, j,
                 [j EXCEPT !.phase = "handlerWait", !.awaits = p,
                           !.outcome = "429"])
           /\ clock' = [clock EXCEPT !.pauseEnds = ends,
                                     !.quietUntil = Later(@, clock.now + d),
                                     !.retryAt[j.who] = ends + d]
    /\ UNCHANGED <<windowDispatches, submitted, cache, callers, watchers,
                   upstream, media, newStatus, mapping, requests, probe,
                   tokens>>

\* A fetch is answered with the data.
Answered(j) == Respond(j, "ok")

\* The setTimeout of the pause fires when its time has come.
PauseFires(p) ==
    /\ clock.now >= clock.pauseEnds
    /\ PauseElapsed(p)

\* A second passes; the timer of a pause fires on time.
Tick ==
    /\ Quiescent
    /\ clock.now < MaxTime
    /\ timers # {} => clock.now < clock.pauseEnds
    /\ clock' = [clock EXCEPT !.now = @ + 1]
    /\ UNCHANGED <<client, mapping, requests, probe, tokens>>

\* Beside the AniList client nothing has happened: the store is new.
InitAside ==
    /\ InitResolvers
    /\ ids = {}
    /\ requests = [h \in Requests |-> IdleRequest]
    /\ probe = NoProbe
    /\ tokens = OneToken
    /\ clock = InitClock

\* ------------------------------------------------------------ specifications
InitStatuses == {"CURRENT", "PLANNING"}

\* The state after the module is loaded, for an item that is on the user's
\* list with one of the given statuses and no episode watched.
InitClient(statuses) ==
    /\ limiter = [queue |-> <<>>, jobs |-> EmptyBag, running |-> 0,
                  reservoir |-> reservoirStart]
    /\ rateLimitPromise = NoPause
    /\ timers = {}
    /\ windowDispatches = 0
    /\ submitted = 0
    /\ cache = [k \in Keys |-> Absent]
    /\ callers = [c \in Callers |-> IdleCaller]
    /\ watchers = [w \in Watchers |-> IdleWatcher]
    /\ upstream \in [progress : {0}, status : statuses]
    /\ media = [episodes |-> MaxEpisode + 1, isMovie |-> FALSE]
    /\ newStatus = "undeclared"

InitWith(statuses) == InitClient(statuses) /\ InitAside

Init == InitWith(InitStatuses)

InitGateway == InitWith({"CURRENT"})

\* AniList answers without throttling.
PlainStep ==
    \/ \E j \in JobsIn(limiter) : Execute(j)
    \/ \E j \in JobsIn(limiter), o \in {"ok"} \cup Errors : Respond(j, o)

\* AniList answers in every way, 429 included.
GatewayStep ==
    \/ \E j \in JobsIn(limiter) : Execute(j)
    \/ \E j \in JobsIn(limiter) : PauseResume(j)
    \/ \E j \in JobsIn(limiter), o \in Outcomes : Respond(j, o)
    \/ \E p \in timers : PauseElapsed(p)
    \/ \E j \in JobsIn(limiter) : HandlerResume(j)

\* The gateway under a few requests, with every kind of answer and the refill.
NextGateway ==
    \/ SubmitRequest(MaxRequests)
    \/ GatewayStep
    \/ Refill
    \/ \E j \in JobsIn(limiter) : DeliverRequest(j)

SpecGateway == InitGateway /\ [][NextGateway]_vars

\* The gateway under more requests than maxConcurrent; one kind of error
\* stands for the failures that are not a 429.
NextLoad ==
    \/ SubmitRequest(MaxLoad)
    \/ \E j \in JobsIn(limiter) : Execute(j)
    \/ \E j \in JobsIn(limiter) : PauseResume(j)
    \/ \E j \in JobsIn(limiter), o \in {"ok", "429", "network"} : Respond(j, o)
    \/ \E p \in timers : PauseElapsed(p)
    \/ \E j \in JobsIn(limiter) : HandlerResume(j)
    \/ \E j \in JobsIn(limiter) : DeliverRequest(j)

SpecLoad == InitGateway /\ [][NextLoad]_vars

\* The gateway when AniList answers every request with a 429.
NextStorm ==
    \/ SubmitRequest(MaxStorm)
    \/ \E j \in JobsIn(limiter) : Execute(j)
    \/ \E j \in JobsIn(limiter) : PauseResume(j)
    \/ \E j \in JobsIn(limiter) : Respond(j, "429")
    \/ \E p \in timers : PauseElapsed(p)
    \/ \E j \in JobsIn(limiter) : HandlerResume(j)
    \/ \E j \in JobsIn(limiter) : DeliverRequest(j)

SpecStorm == InitGateway /\ [][NextStorm]_vars

\* Concurrent calls of getCachedResult alone, over the whole gateway.
NextCache ==
    \/ \E c \in Callers, k \in Keys : Call(c, k)
    \/ GatewayStep
    \/ \E j \in JobsIn(limiter) : DeliverQuery(j)

SpecCache == InitGateway /\ [][NextCache]_vars

\* Concurrent watch events.
NextWatch ==
    \/ \E w \in Watchers, ep \in Episodes, pre \in BOOLEAN : Watch(w, ep, pre)
    \/ PlainStep
    \/ \E j \in JobsIn(limiter) : DeliverRead(j)
    \/ \E j \in JobsIn(limiter) : DeliverWrite(j)

SpecWatch == Init /\ [][NextWatch]_vars

\* Cached queries and one watch event together.
Next ==
    \/ \E c \in Callers, k \in Keys : Call(c, k)
    \/ \E ep \in Episodes, pre \in BOOLEAN : Watch(1, ep, pre)
    \/ PlainStep
    \/ \E j \in JobsIn(limiter) : DeliverQuery(j)
    \/ \E j \in JobsIn(limiter) : DeliverRead(j)
    \/ \E j \in JobsIn(limiter) : DeliverWrite(j)

Spec == Init /\ [][Next]_vars

\* The state after the module is loaded, or later in a refill window in
\* which reservoirStart requests have been served: the reservoir is used up.
InitLive ==
    /\ \E used \in {0, reservoirStart} :
          /\ limiter = [queue |-> <<>>, jobs |-> EmptyBag, running |-> 0,
                        reservoir |-> reservoirStart - used]
          /\ windowDispatches = used
    /\ rateLimitPromise = NoPause
    /\ timers = {}
    /\ submitted = 0
    /\ cache = [k \in Keys |-> Absent]
    /\ callers = [c \in Callers |-> IdleCaller]
    /\ watchers = [w \in Watchers |-> IdleWatcher]
    /\ upstream = [progress |-> 0, status |-> "CURRENT"]
    /\ media = [episodes |-> MaxEpisode + 1, isMovie |-> FALSE]
    /\ newStatus = "undeclared"
    /\ InitAside

NextLive ==
    \/ SubmitRequest(MaxLive)
    \/ GatewayStep
    \/ Refill
    \/ \E j \in JobsIn(limiter) : DeliverRequest(j)

\* Start and retry timers fire, promise continuations run, every fetch is
\* answered or times out, pause timers fire and the reservoir is refilled.
FairLive ==
    /\ WF_vars(\E j \in JobsIn(limiter) : Execute(j))
    /\ WF_vars(\E j \in JobsIn(limiter) : PauseResume(j))
    /\ WF_vars(\E j \in JobsIn(limiter), o \in Outcomes : Respond(j, o))
    /\ WF_vars(\E p \in timers : PauseElapsed(p))
    /\ WF_vars(\E j \in JobsIn(limiter) : HandlerResume(j))
    /\ WF_vars(Refill)
    /\ WF_vars(\E j \in JobsIn(limiter) : DeliverRequest(j))

SpecLive == InitLive /\ [][NextLive]_vars /\ FairLive

\* The list statuses of an item at AniList; "none": the item is on no list.
Statuses == {"none", "CURRENT", "PLANNING", "COMPLETED"}

\* The state after the module is loaded, for any item: a movie or a series,
\* its episode count known or not (0), on a list or not, with any progress
\* AniList can hold for it.
InitReconcile ==
    /\ limiter = [queue |-> <<>>, jobs |-> EmptyBag, running |-> 0,
                  reservoir |-> reservoirStart]
    /\ rateLimitPromise = NoPause
    /\ timers = {}
    /\ windowDispatches = 0
    /\ submitted = 0
    /\ cache = [k \in Keys |-> Absent]
    /\ callers = [c \in Callers |-> IdleCaller]
    /\ watchers = [w \in Watchers |-> IdleWatcher]
    /\ media \in [episodes : 0..MaxEpisode, isMovie : BOOLEAN]
    /\ upstream \in [progress : 0..MaxEpisode, status : Statuses]
    /\ upstream.status = "none" => upstream.progress = 0
    /\ media.episodes # 0 => upstream.progress <= media.episodes
    /\ newStatus = "undeclared"
    /\ InitAside

\* No call of handleWatchedEpisode is under way.
WatchIdle == \A w \in Watchers : watchers[w].state \notin {"reading", "writing"}

\* The next watch event arrives after the earlier ones have ended.
WatchNext(ep, pre) ==
    /\ WatchIdle
    /\ \E w \in Watchers :
          /\ \A v \in Watchers : v < w => watchers[v].state # "idle"
          /\ Watch(w, ep, pre)

\* Watch events for one item, one after the other.
NextReconcile ==
    \/ \E ep \in Episodes, pre \in BOOLEAN : WatchNext(ep, pre)
    \/ PlainStep
    \/ \E j \in JobsIn(limiter) : DeliverRead(j)
    \/ \E j \in JobsIn(limiter) : DeliverWrite(j)

SpecReconcile == InitReconcile /\ [][NextReconcile]_vars

\* The tables the store can hold: at most one row for an anilist id, and
\* no value twice in an alternate column.
Tables ==
    LET Cells == [kitsu : {Null} \cup ExternalIds, imdb : {Null} \cup ExternalIds]
        Held == [AnilistIds -> Cells \cup {<<>>}]
        RowsOf(h) == {[anilist |-> a, kitsu |-> h[a].kitsu, imdb |-> h[a].imdb] :
                         a \in {b \in AnilistIds : h[b] # <<>>}}
    IN  {t \in {RowsOf(h) : h \in Held} :
            \A r, o \in t, s \in Schemes :
                r[s] # Null /\ r[s] = o[s] => r = o}

\* The durable store under any sequence of upserts, from a new database.
NextStore ==
    \E a \in AnilistIds, x \in ExternalIds, s \in Schemes, fault \in DbFaults :
        CacheToDatabaseCall(a, x, s, fault)

SpecStore == InitGateway /\ [][NextStore]_vars

\* A process starts with an empty mapping cache over the store earlier
\* processes left: here no row or one.
InitMapping ==
    /\ InitClient({"CURRENT"})
    /\ InitResolvers
    /\ ids \in {t \in Tables : Cardinality(t) <= 1}
    /\ requests = [h \in Requests |-> IdleRequest]
    /\ probe = NoProbe
    /\ tokens = OneToken
    /\ clock = InitClock

\* Concurrent calls of getAnilistId within the ttl of the mapping cache (a
\* day; no entry expires); the store and the remote services answer in
\* every way.
NextMapping ==
    \/ \E r \in Resolvers, x \in 1..MaxLookup, s \in Schemes : GetAnilistId(r, x, s)
    \/ \E r \in Resolvers, fault \in DbFaults : DbRead(r, fault)
    \/ \E r \in Resolvers, ans \in RemoteAnswers : KitsuAnswer(r, ans)
    \/ \E r \in Resolvers, ans \in RemoteAnswers : ArmAnswer(r, ans)
    \/ \E r \in Resolvers, fault \in DbFaults : DbWrite(r, fault)
    \/ \E r \in Resolvers : ResolverDone(r)

SpecMapping == InitMapping /\ [][NextMapping]_vars

\* The requests of the host, one after the other: watch events and
\* catalogs, with a token or without; the store, the remote services and
\* AniList answer in every way but a 429.  The store is new, or an earlier
\* process has left it a row.
InitHost ==
    /\ InitClient(InitStatuses)
    /\ InitResolvers
    /\ ids \in {{}, {NewRow(1, "kitsu", 1)}}
    /\ requests = [h \in Requests |-> IdleRequest]
    /\ probe = NoProbe
    /\ tokens = OneToken
    /\ clock = InitClock

NextHost ==
    \/ \E h \in Requests :
          /\ HostNext(h)
          /\ requests[h].state = "idle"
          /\ \E token \in BOOLEAN, prefix \in Prefixes,
                id \in {BadText} \cup (1..MaxLookup), type \in {"series", "movie"},
                currEp \in {NoText, BadText} \cup (0..MaxEpisode), pre \in BOOLEAN :
                /\ prefix \in {"kitsu", "tt"} => id > 0
                /\ prefix = "tt" => type = "series"
                /\ Subtitles(h, token, prefix, id, type, currEp, pre)
    \/ \E h \in Requests, token \in BOOLEAN : HostNext(h) /\ Catalog(h, token)
    \/ \E h \in Requests : Resolved(h)
    \/ \E h \in Requests : Synced(h)
    \/ \E h \in Requests : CatalogViewer(h)
    \/ \E h \in Requests : CatalogList(h)
    \/ \E r \in Resolvers, fault \in DbFaults : DbRead(r, fault)
    \/ \E r \in Resolvers, ans \in RemoteAnswers : KitsuAnswer(r, ans)
    \/ \E r \in Resolvers, ans \in RemoteAnswers : ArmAnswer(r, ans)
    \/ \E r \in Resolvers, fault \in DbFaults : DbWrite(r, fault)
    \/ PlainStep
    \/ \E j \in JobsIn(limiter) : DeliverQuery(j)
    \/ \E j \in JobsIn(limiter) : DeliverRead(j)
    \/ \E j \in JobsIn(limiter) : DeliverWrite(j)

SpecHost == InitHost /\ [][NextHost]_vars

\* Two calls of the query cache with the list query and variables objects
\* that hold the same properties, inserted in any two orders.
InitKey ==
    /\ InitClient({"CURRENT"})
    /\ InitResolvers
    /\ ids = {}
    /\ requests = [h \in Requests |-> IdleRequest]
    /\ clock = InitClock
    /\ tokens = OneToken
    /\ \E a \in Variables \cup {NoVariables}, turn \in BOOLEAN :
          \E f \in Orders(Len(a.fields)) :
              probe = [phase |-> "input", query |-> ListKey, a |-> a,
                       b |-> IF a.kind = "none" THEN a ELSE Reordered(a, f, turn),
                       keyA |-> <<>>, keyB |-> <<>>]

NextKey == DeriveKeys

\* The gateway in time: a few requests, answered with the data or with a
\* 429 and any retry-after; the timers fire on time.
NextTimed ==
    \/ SubmitTimed
    \/ \E j \in JobsIn(limiter) : StartTimed(j)
    \/ \E j \in JobsIn(limiter) : PauseResume(j)
    \/ \E j \in JobsIn(limiter), d \in RetryAfters : Throttled(j, d)
    \/ \E j \in JobsIn(limiter) : Answered(j)
    \/ \E p \in timers : PauseFires(p)
    \/ \E j \in JobsIn(limiter) : HandlerResume(j)
    \/ \E j \in JobsIn(limiter) : DeliverRequest(j)
    \/ Tick

SpecTimed == InitGateway /\ [][NextTimed]_vars

\* Watch events for tt ids, one after the other, with a token: the id
\* mapping answers in every way, Cinemeta gives a name or none, the name
\* search finds the item or nothing.
NextName ==
    \/ \E h \in Requests :
          /\ HostNext(h)
          /\ requests[h].state = "idle"
          /\ \E id \in 1..MaxLookup, type \in {"series", "movie"},
                currEp \in {NoText} \cup (0..MaxEpisode), pre \in BOOLEAN :
                Subtitles(h, TRUE, "tt", id, type, currEp, pre)
    \/ \E h \in Requests : Resolved(h)
    \/ \E h \in Requests : ResolvedByName(h)
    \/ \E h \in Requests, found \in BOOLEAN : NameSearched(h, found)
    \/ \E h \in Requests : Synced(h)
    \/ \E r \in Resolvers, fault \in DbFaults : DbRead(r, fault)
    \/ \E r \in Resolvers, ans \in RemoteAnswers : ArmAnswer(r, ans)
    \/ \E r \in Resolvers, fault \in DbFaults : DbWrite(r, fault)
    \/ PlainStep
    \/ \E j \in JobsIn(limiter) : DeliverQuery(j)
    \/ \E j \in JobsIn(limiter) : DeliverRead(j)
    \/ \E j \in JobsIn(limiter) : DeliverWrite(j)

SpecName == InitHost /\ [][NextName]_vars

\* The calls of the query cache, each made with the token of some user.
InitTokens ==
    /\ InitClient({"CURRENT"})
    /\ InitResolvers
    /\ ids = {}
    /\ requests = [h \in Requests |-> IdleRequest]
    /\ probe = NoProbe
    /\ clock = InitClock
    /\ tokens \in [Callers -> Tokens]

SpecTokens == InitTokens /\ [][NextCache]_vars

SpecKey == InitKey /\ [][NextKey]_vars

\* ------------------------------------------------------------------ claims
\* Call w of handleWatchedEpisode has its entry data and has gone through
\* the guards of handleWatchedEpisode and updateAnilistProgress.
Decided(w) == watchers[w].state \in {"writing", "done", "failed", "skipped"}

\* Call w has issued its SaveMediaListEntry write.
WriteIssued(w) == watchers[w].vars # NoData

\* The target progress of call w.
Target(w) == NewProgress(watchers[w].entry, watchers[w].episode)

\* The fetches in flight for cache key k.
FetchesInFlight(k) == {f \in InFlight : callers[f].key = k}

Waiting(k) == {c \in Callers : callers[c].state = "waiting" /\ callers[c].key = k}

\* C1: concurrent getCachedResult calls with one cache key, issued before
\* the first one's fetch has settled, start the fetch function once: one
\* fetch is in flight for the key, one of the waiting callers started it,
\* all of them await it, and each caller receives what the fetch it awaited
\* brought.
C1_SingleFlight ==
    /\ \A k \in Keys :
          /\ Cardinality(FetchesInFlight(k)) <= 1
          /\ \A c \in Waiting(k) : callers[c].awaits \in FetchesInFlight(k)
          /\ Waiting(k) # {} =>
                Cardinality({c \in Waiting(k) : callers[c].awaits = c}) = 1
    /\ \A c \in Callers :
          callers[c].state \in {"done", "failed"} /\ callers[c].awaits # 0
             => callers[c].by = callers[c].awaits
    /\ \A c1, c2 \in Callers :
          /\ callers[c1].state \in {"done", "failed"}
          /\ callers[c2].state \in {"done", "failed"}
          /\ callers[c1].by = callers[c2].by
          => callers[c1].state = callers[c2].state /\ callers[c1].data = callers[c2].data

\* Two callers have shared one fetch: the second joined the fetch the first
\* had started, and both hold its result.
C1_Witness ==
    \E c1, c2 \in Callers :
        /\ c1 # c2
        /\ callers[c1].awaits = c1 /\ callers[c2].awaits = c1
        /\ callers[c1].state = "done" /\ callers[c2].state = "done"
        /\ callers[c2].by = c1

\* C2: at every instant at most one upstream fetch is in flight for any
\* cache key, whatever the interleaving of calls, completions and
\* cache.clear().
C2_OneFetchPerKey ==
    \A k \in Keys : Cardinality(FetchesInFlight(k)) <= 1

\* C3: a failed fetch is never cached.  In the step in which the promise of
\* a failed fetch settles, the entry of its key is removed and every caller
\* awaiting it gets the error; and the cache never holds the promise of a
\* fetch that is over, so the next call for the key starts a fetch again.
C3_FailedFetchNotCached ==
    /\ [](\A k \in Keys : cache[k].kind = "pending" => cache[k].fetch \in InFlight)
    /\ [][\A j \in JobsIn(limiter) :
             j.op = "query" /\ j.outcome # "ok" /\ DeliverQuery(j)
                => /\ cache'[callers[j.who].key].kind = "absent"
                   /\ \A c \in Callers :
                         callers[c].state = "waiting" /\ callers[c].awaits = j.who
                            => callers'[c].state = "failed" /\ callers'[c].by = j.who]_vars
    /\ [][\A c \in Callers, k \in Keys :
             Call(c, k) /\ cache[k].kind = "absent" => c \in InFlight']_vars

\* A fetch has failed towards its caller, and with no cache.clear() in the
\* run another call for the same key has started a fetch of its own.
C3_Witness ==
    /\ \A w \in Watchers : ~watchers[w].cleared
    /\ \E c1, c2 \in Callers :
          /\ callers[c1].state = "failed" /\ callers[c1].by = c1
          /\ callers[c2].state = "waiting" /\ callers[c2].awaits = c2
          /\ callers[c1].key = callers[c2].key

\* The mutation of watch event w has succeeded at AniList.
WriteSucceeded(w) ==
    \/ watchers[w].state = "done"
    \/ \E j \in JobsIn(limiter) :
          j.op = "write" /\ j.who = w /\ j.phase = "settled" /\ j.outcome = "ok"

\* C4: updateAnilistProgress invalidates the query-result cache after, and
\* only after, its write has succeeded.
C4_ClearOnlyAfterWriteSucceeded ==
    \A w \in Watchers : watchers[w].cleared => WriteSucceeded(w)

\* C5: the progress AniList stores for the item never decreases, whatever
\* the interleaving of handleWatchedEpisode calls.
C5_ProgressNeverDecreases ==
    [][upstream'.progress >= upstream.progress]_vars

\* C6: the gateway starts no more than reservoirRefreshAmount upstream
\* fetches within one refill window, first attempts and retries together.
C6_WindowWithinReservoir == windowDispatches <= reservoirRefreshAmount

\* The jobs the limiter has admitted and not yet settled.
Admitted(lim) ==
    LET live == {j \in JobsIn(lim) : j.phase # "settled"}
    IN  BagCardinality([j \in live |-> CopiesIn(j, lim.jobs)])

\* C7: at every instant at most maxConcurrent jobs are in flight, the ones
\* that wait on the shared pause or for a retry included.
C7_AtMostMaxConcurrent == Admitted(limiter) <= maxConcurrent

\* The ceiling binds: maxConcurrent jobs are in flight, one of them waits on
\* the pause, one waits for its retry, and a request waits in the queue.
C7_Witness ==
    /\ Admitted(limiter) = maxConcurrent
    /\ Len(limiter.queue) >= 1
    /\ \E j \in JobsIn(limiter) : j.phase = "pauseWait"
    /\ \E j \in JobsIn(limiter) : j.phase = "scheduled" /\ j.retryCount >= 1

\* The jobs that wait on a pause that has not elapsed.
Paused == {j \in JobsIn(limiter) :
              j.phase \in {"pauseWait", "handlerWait"} /\ j.awaits \in timers}

\* C8: a 429 establishes a pause only if none is active: at most one pause
\* timer is pending, it is the one rateLimitPromise names, every handler and
\* every task that waits awaits that promise, and a task that starts while
\* rateLimitPromise is set starts no fetch.
C8_OneSharedPause ==
    /\ [](/\ Cardinality(timers) <= 1
          /\ timers \subseteq {rateLimitPromise}
          /\ \A j \in Paused : j.awaits = rateLimitPromise)
    /\ [][\A j \in JobsIn(limiter) :
             Execute(j) /\ rateLimitPromise # NoPause
                => windowDispatches' = windowDispatches]_vars

\* Two 429 handlers and a task wait on the one pending pause.
C8_Witness ==
    /\ Cardinality(timers) = 1
    /\ \E j \in Paused : j.phase = "pauseWait"
    /\ BagCardinality([j \in {x \in Paused : x.phase = "handlerWait"} |->
                          CopiesIn(j, limiter.jobs)]) >= 2

\* C9: a request answered with 429 is dispatched again, at most retryBudget
\* times: every retry is one more dispatch, no job is dispatched more than
\* retryBudget + 1 times, and a job is rejected with the 429 only when the
\* budget is used up.
C9_RetryBudget ==
    \A j \in JobsIn(limiter) :
        /\ j.dispatches <= retryBudget + 1
        /\ j.dispatches =
              j.retryCount + (IF j.phase \in {"scheduled", "pauseWait"} THEN 0 ELSE 1)
        /\ j.phase = "settled" /\ j.outcome = "429" => j.dispatches = retryBudget + 1

\* A request was answered 429 on every dispatch and is rejected.
C9_Witness ==
    \E j \in JobsIn(limiter) :
        j.phase = "settled" /\ j.outcome = "429" /\ j.dispatches = retryBudget + 1

Outstanding == Len(limiter.queue) + BagCardinality(limiter.jobs)

\* C11: every request handed to makeGraphQLRequest eventually settles
\* towards its caller, whatever the answers are 429: whenever requests are
\* outstanding, a state follows in which none is.
C11_EveryRequestSettles == (Outstanding > 0) ~> (Outstanding = 0)

\* A request that was answered 429 has been retried and has resolved, within
\* a window that started with a refill or a full reservoir.
C11_Witness ==
    /\ windowDispatches >= 2 /\ windowDispatches < reservoirStart
    /\ \E j \in JobsIn(limiter) :
          j.phase = "settled" /\ j.outcome = "ok" /\ j.retryCount >= 1

\* C12: no write is issued when the target progress (1 for a movie, else
\* the episode number) is at most the current progress that was fetched.
C12_NoWriteAtOrBelowCurrent ==
    \A w \in Watchers :
        /\ Decided(w)
        /\ ~watchers[w].entry.isNull
        /\ Target(w) <= watchers[w].entry.currentProgress
        => ~WriteIssued(w) /\ watchers[w].state = "skipped"

\* A call for a listed series whose episode equals the current progress,
\* without the pre-added-only flag, has ended without a write.
C12_Witness ==
    \E w \in Watchers :
        /\ watchers[w].state = "skipped"
        /\ ~watchers[w].preAddedOnly
        /\ ~watchers[w].entry.isNull /\ ~watchers[w].entry.isMovie
        /\ watchers[w].entry.currentProgress = watchers[w].episode
        /\ ~WriteIssued(w)

\* C13: for a series with a known total no write is issued when the target
\* progress exceeds the total, and every progress written for such a series
\* is at most its total.
C13_NoWriteBeyondTotal ==
    \A w \in Watchers :
        LET e == watchers[w].entry
        IN  /\ Decided(w) /\ ~e.isNull /\ ~e.isMovie /\ e.totalEpisodes # 0
               /\ Target(w) > e.totalEpisodes
               => ~WriteIssued(w) /\ watchers[w].state = "skipped"
            /\ WriteIssued(w) /\ ~e.isMovie /\ e.totalEpisodes # 0
               => watchers[w].vars.progress <= e.totalEpisodes

\* A call whose episode is above the current progress and above the known
\* total of a listed series has ended without a write.
C13_Witness ==
    \E w \in Watchers :
        LET e == watchers[w].entry
        IN  /\ watchers[w].state = "skipped"
            /\ ~e.isNull /\ ~e.isMovie /\ e.currentStatus # "none"
            /\ e.totalEpisodes # 0
            /\ watchers[w].episode > e.totalEpisodes
            /\ watchers[w].episode > e.currentProgress
            /\ ~WriteIssued(w)

\* C14: with preAddedOnly set and an item that has no list status, no write
\* is issued, whatever the episode number.
C14_PreAddedOnlyDrops ==
    \A w \in Watchers :
        /\ Decided(w)
        /\ watchers[w].preAddedOnly
        /\ watchers[w].entry.currentStatus = "none"
        => ~WriteIssued(w) /\ watchers[w].state = "skipped"

\* For every episode number, a call with preAddedOnly for an item that was
\* fetched and is on no list has ended without a write.
C14_Witness ==
    \A ep \in Episodes : \E w \in Watchers :
        /\ watchers[w].state = "skipped"
        /\ watchers[w].preAddedOnly
        /\ watchers[w].episode = ep
        /\ ~watchers[w].entry.isNull
        /\ watchers[w].entry.currentStatus = "none"
        /\ ~WriteIssued(w)

\* C15: when the entry fetch yields no details (null or not found), the
\* watch event is dropped: no write is issued.
C15_NotFoundDrops ==
    \A w \in Watchers :
        Decided(w) /\ watchers[w].entry.isNull
           => ~WriteIssued(w) /\ watchers[w].state = "skipped"

\* After an earlier call has written, a call without the pre-added-only
\* flag whose entry fetch yielded no details has ended without a write.
C15_Witness ==
    \E v, w \in Watchers :
        /\ watchers[v].state = "done"
        /\ watchers[w].state = "skipped"
        /\ ~watchers[w].preAddedOnly
        /\ watchers[w].entry.isNull
        /\ ~WriteIssued(w)

\* C16: whenever a write is issued for a movie, or for a series with a known
\* total and a target progress at or above it, its status is COMPLETED.
C16_CompletedWhenComplete ==
    \A w \in Watchers :
        LET e == watchers[w].entry
        IN  /\ WriteIssued(w)
            /\ e.isMovie \/ (e.totalEpisodes # 0 /\ Target(w) >= e.totalEpisodes)
            => watchers[w].vars = [progress |-> Target(w), status |-> "COMPLETED"]

\* A write for the last episode of a series that is on the CURRENT list
\* carries the total and COMPLETED.
C16_Witness ==
    \E w \in Watchers :
        LET e == watchers[w].entry
        IN  /\ WriteIssued(w)
            /\ ~e.isMovie /\ e.currentStatus = "CURRENT"
            /\ e.totalEpisodes = watchers[w].episode
            /\ watchers[w].vars =
                  [progress |-> e.totalEpisodes, status |-> "COMPLETED"]

\* C17: for a series whose target progress is above the current progress
\* and below the known total, and whose status is a list status other than
\* COMPLETED, the call issues a write that carries the target progress and
\* the status as fetched, after any earlier calls.
C17_StatusUnchanged ==
    \A w \in Watchers :
        LET e == watchers[w].entry
        IN  /\ Decided(w) /\ ~e.isNull /\ ~e.isMovie
            /\ e.currentStatus \notin {"none", "COMPLETED"}
            /\ e.totalEpisodes # 0
            /\ e.currentProgress < Target(w) /\ Target(w) < e.totalEpisodes
            => /\ WriteIssued(w)
               /\ watchers[w].vars =
                     [progress |-> Target(w), status |-> e.currentStatus]

\* C18: a write issued for an item whose status is COMPLETED, with a target
\* progress below the completion threshold, carries the status CURRENT.
C18_CompletedDemoted ==
    \A w \in Watchers :
        LET e == watchers[w].entry
        IN  /\ WriteIssued(w)
            /\ e.currentStatus = "COMPLETED"
            /\ ~(e.isMovie \/ (e.totalEpisodes # 0 /\ Target(w) >= e.totalEpisodes))
            => watchers[w].vars.status = "CURRENT"

C20_FetchFailureSurfaces ==
    \A w \in Watchers :
        Decided(w) /\ watchers[w].entry.isNull => watchers[w].state = "failed"

\* C21: a call of getAnilistId that begins when the mapping cache or the
\* durable store holds a mapping for its (source, id) makes no remote lookup
\* call and returns the anilist id of that mapping.
C21_KnownMappingNeedsNoLookup ==
    \A r \in Resolvers :
        resolvers[r].seen # Null =>
            /\ resolvers[r].remote = 0
            /\ resolvers[r].state = "returned" =>
                  resolvers[r].value = resolvers[r].seen

\* C22: when a call of getAnilistId returns an anilist id it got from a
\* remote service (it returns out of its store write), the mapping cache and
\* the store both map its (source, id) to the returned id at that moment.
C22_ReturnedMappingIsStored ==
    [][\A r \in Resolvers :
          resolvers[r].state = "dbWrite" /\ resolvers'[r].state = "returned" =>
              /\ anilistIdCache'[<<resolvers'[r].source, resolvers'[r].id>>]
                    = resolvers'[r].value
              /\ Select(ids', resolvers'[r].source, resolvers'[r].id)
                    = resolvers'[r].value]_vars

\* C23: in the store no value of an alternate column is held by the rows of
\* two anilist ids; and an upsert (one no database fault hits) of a value
\* that the row of another anilist id holds changes no row and resolves.
C23_AlternateValueUnique ==
    /\ [](\A r, o \in ids, s \in Schemes : r[s] # Null /\ r[s] = o[s] => r = o)
    /\ [][\A a \in AnilistIds, x \in ExternalIds, s \in Schemes :
             /\ CacheToDatabaseCall(a, x, s, "none")
             /\ \E r \in ids : r.anilist # a /\ r[s] = x
             => ids' = ids /\ dbLog'.result = "resolved"]_vars

\* A call has tried to map a second anilist id to a value in use: it
\* resolved, and the row that held the value holds it still.
C23_Witness ==
    /\ dbLog.result = "resolved"
    /\ \E r \in ids : r.anilist # dbLog.anilist /\ r[dbLog.source] = dbLog.value

\* C24: an upsert (one no database fault hits) whose arguments are those of
\* the call before it, which resolved, resolves too and leaves every row of
\* the store as it was.
C24_UpsertTwiceIsIdempotent ==
    [][\A a \in AnilistIds, x \in ExternalIds, s \in Schemes :
          /\ CacheToDatabaseCall(a, x, s, "none")
          /\ dbLog.anilist = a /\ dbLog.source = s /\ dbLog.value = x
          /\ dbLog.result = "resolved"
          => ids' = ids /\ dbLog'.result = "resolved"]_vars

\* The same upsert has run twice and resolved twice, and the row is there.
C24_Witness ==
    /\ dbLog.again
    /\ dbLog.result = "resolved"
    /\ \E r \in ids : r.anilist = dbLog.anilist /\ r[dbLog.source] = dbLog.value

\* C25: no call of getAnilistId rejects; a call that went to the remote
\* services, found no id and got nothing (a failure or no mapping) from the
\* last of them returns null.
C25_GetAnilistIdNeverRejects ==
    \A r \in Resolvers :
        /\ resolvers[r].state # "rejected"
        /\ /\ resolvers[r].state = "returned"
           /\ resolvers[r].remote > 0
           /\ resolvers[r].anilistId = Null
           /\ resolvers[r].answer \in {"error", "none"}
           => resolvers[r].value = Null

\* A call for a kitsu id whose mapping the store held: the read of the store
\* failed, Kitsu and ARM gave nothing, and the call returned null.
C25_Witness ==
    \E r \in Resolvers :
        /\ resolvers[r].state = "returned"
        /\ resolvers[r].source = "kitsu"
        /\ resolvers[r].seen # Null
        /\ resolvers[r].remote = 2
        /\ resolvers[r].answer = "error"
        /\ resolvers[r].value = Null

\* C26: a subtitles request that carries a token is never rejected, and the
\* answer the host gets for it is the empty acknowledgment { subtitles: [] },
\* whatever getAnilistId, the entry fetch and the write did.
C26_WatchEventAcknowledged ==
    \A h \in Requests :
        requests[h].handler = "subtitles" /\ requests[h].token =>
            /\ requests[h].state # "rejected"
            /\ requests[h].state = "replied" => requests[h].reply = "subtitles: []"

\* A watch event whose handleWatchedEpisode rejected (the write failed, or
\* newStatus was read unassigned) and which was acknowledged all the same.
C26_Witness ==
    \E h \in Requests :
        /\ requests[h].handler = "subtitles"
        /\ requests[h].token
        /\ watchers[h].state = "failed"
        /\ requests[h].state = "replied"
        /\ requests[h].reply = "subtitles: []"

\* C27: a request without a token, to the subtitles handler or the catalog
\* handler, is rejected with the configuration error in the step in which it
\* arrives, and that step changes nothing of the AniList client (no request
\* scheduled, no cache entry) nor of the ID resolution (no lookup, no cache
\* or store change); nothing runs for it afterwards.
C27_NoTokenNoEffect ==
    /\ [][\A h \in Requests :
             /\ requests[h].state = "idle"
             /\ requests'[h].state # "idle"
             /\ ~requests'[h].token
             => /\ requests'[h].state = "rejected"
                /\ requests'[h].reply = "Anilist token not configured."
                /\ UNCHANGED <<client, other, mapping>>]_vars
    /\ [](\A h \in Requests :
             requests[h].state = "rejected" =>
                 /\ watchers[h] = IdleWatcher
                 /\ resolvers[h] = IdleResolver
                 /\ callers[h] = IdleCaller)

\* A watch event and a catalog request, both without a token, both rejected.
C27_Witness ==
    \E g, h \in Requests :
        /\ requests[g].handler = "subtitles"
        /\ requests[h].handler = "catalog"
        /\ requests[g].state = "rejected" /\ ~requests[g].token
        /\ requests[h].state = "rejected" /\ ~requests[h].token


\* C28: for one query and two variables objects with the same properties and
\* values inserted in different orders, getCacheKey derives the same key.
C28_KeyIgnoresInsertionOrder ==
    probe.phase = "derived" => probe.keyA = probe.keyB

\* Two objects with the same two properties in opposite orders, and their
\* keys derived.
C28_Witness ==
    /\ probe.phase = "derived"
    /\ Len(probe.a.fields) = 2
    /\ probe.a.fields # probe.b.fields
    /\ probe.b.fields[1] = probe.a.fields[2]
    /\ probe.keyA = probe.keyB

\* C29: while rateLimitPromise is set no job starts its fetch: a task that
\* reaches its dispatch point while it is set awaits that pause, whose timer
\* is still pending, and goes on to its fetch only after the timer has
\* fired; and rateLimitPromise is cleared only after the timer has fired.
C29_NoDispatchWhilePauseIsSet ==
    /\ [][(\E j \in JobsIn(limiter) : limiter' = Replace(limiter, j, Dispatched(j)))
             => rateLimitPromise = NoPause]_vars
    /\ [][\A j \in JobsIn(limiter) :
             Execute(j) /\ rateLimitPromise # NoPause
                => /\ rateLimitPromise \in timers
                   /\ limiter' = Replace(limiter, j,
                         [j EXCEPT !.phase = "pauseWait",
                                   !.awaits = rateLimitPromise])]_vars
    /\ [][\A j \in JobsIn(limiter) : PauseResume(j) => j.awaits \notin timers]_vars
    /\ [][rateLimitPromise # NoPause /\ rateLimitPromise' = NoPause
             => rateLimitPromise \notin timers]_vars

\* The pause has elapsed and a handler has cleared rateLimitPromise: a task
\* that waited for the pause is about to start its fetch.
C29_Witness ==
    /\ rateLimitPromise = NoPause
    /\ \E j \in JobsIn(limiter) :
          j.phase = "pauseWait" /\ j.awaits # NoPause /\ j.awaits \notin timers

\* C30: after a 429 with retry-after d no fetch is started earlier than d
\* seconds after that answer, whichever request it is for and whether or
\* not a pause was already set when the 429 arrived.
C30_NoDispatchBeforeRetryAfter ==
    [][(\E j \in JobsIn(limiter) : limiter' = Replace(limiter, j, Dispatched(j)))
          => clock.now >= clock.quietUntil]_vars

\* C31: the lookups of getAnilistId cascade in a fixed order: the store is
\* asked only when the mapping cache has no entry; the first remote call is
\* made only out of a store read that gave no row or failed, and it goes to
\* the Kitsu mapping API for a kitsu id and to ARM for any other; ARM is
\* called after Kitsu only when Kitsu gave no id; no other remote call is
\* made.
C31_LookupCascade ==
    [][\A r \in Resolvers :
          LET rv == resolvers[r]
              nv == resolvers'[r]
          IN  /\ rv.state = "idle" /\ nv.state = "dbRead"
                    => anilistIdCache[<<nv.source, nv.id>>] = Null
              /\ nv.state \in {"kitsu", "arm"} /\ nv.state # rv.state
                    => nv.remote = rv.remote + 1
              /\ nv.remote # rv.remote /\ nv.state # "idle" =>
                    \/ /\ rv.state = "dbRead"
                       /\ rv.remote = 0
                       /\ nv.remote = 1
                       /\ \E fault \in DbFaults :
                             /\ DbRead(r, fault)
                             /\ \/ fault # "none"
                                \/ ~Truthy(Select(ids, rv.source, rv.id))
                       /\ nv.state = IF rv.source = "kitsu" THEN "kitsu" ELSE "arm"
                    \/ /\ rv.state = "kitsu"
                       /\ rv.source = "kitsu"
                       /\ rv.remote = 1
                       /\ nv.remote = 2
                       /\ nv.state = "arm"
                       /\ nv.answer \in {"error", "none", "garbage"}]_vars

\* A call for a kitsu id has asked Kitsu, got nothing, asked ARM and got an
\* id; a call for an imdb id has asked ARM alone.
C31_Witness ==
    /\ \E r \in Resolvers :
          /\ resolvers[r].source = "kitsu"
          /\ resolvers[r].remote = 2
          /\ resolvers[r].state = "dbWrite"
    /\ \E r \in Resolvers :
          /\ resolvers[r].source = "imdb"
          /\ resolvers[r].remote = 1
          /\ resolvers[r].state = "returned"

\* C32: once the write of updateAnilistProgress has succeeded, every value
\* the query-result cache holds was fetched after the write took effect: it
\* is the entry as the write left it.
C32_NoPreWriteValueAfterWrite ==
    \A w \in Watchers :
        WriteSucceeded(w) =>
            \A k \in Keys :
                cache[k].kind = "value" => cache[k].data = watchers[w].vars

\* C33: what getCachedResult returns to a call was fetched with the token
\* of that call: never with the token of another user.
C33_CacheIsolatedPerToken ==
    \A c \in Callers :
        callers[c].state = "done" => tokens[callers[c].by] = tokens[c]

\* C34: the status a call of updateAnilistProgress writes is determined by
\* the entry it fetched and the episode it observed: it is the status the
\* assignments give whatever newStatus held when the call began, be it
\* nothing (a new process) or a status an earlier call left.
C34_StatusFromOwnInputs ==
    \A w \in Watchers :
        WriteIssued(w) =>
            \A g \in {"undeclared"} \cup (Statuses \ {"none"}) :
                watchers[w].vars.status =
                    StatusAssigned(watchers[w].entry, Target(w), g)

\* C35: every current-entry fetch and every write of handleWatchedEpisode
\* carries an anilist id: a call that has no id, none given and none found
\* by the name search, schedules no request.
C35_RequestsCarryAnId ==
    /\ \A i \in 1..Len(limiter.queue) :
          limiter.queue[i].op \in {"read", "write"} =>
              Truthy(watchers[limiter.queue[i].who].targetAnilistId)
    /\ \A j \in JobsIn(limiter) :
          j.op \in {"read", "write"} => Truthy(watchers[j.who].targetAnilistId)

====
